---- MODULE Spec2Model ----
(***************************************************************************)
(* A model of circleci/go-o11y: the deterministic sampler of               *)
(* o11y/otel/sampler.go and the context-scoped provider facade of o11y.go. *)
(*                                                                         *)
(* Unsigned machine integers are sequences of 16-bit limbs, most           *)
(* significant limb first: Go's uint is 64 bits wide on the modelled       *)
(* build, uint32 is 32 bits wide, and neither fits the model checker's own *)
(* integers.                                                               *)
(***************************************************************************)
EXTENDS Integers, Sequences, FiniteSets, TLC

(***************************************************************************)
(* Machine words                                                           *)
(***************************************************************************)

\* One limb holds sixteen bits.
Limb == 65536

\* The bits of a limb.
LimbBits == 16

\* The limbs of Go's uint32.
N32 == 2

\* The limbs of Go's uint on a 64-bit build (the value type of sampleRates).
N64 == 4

\* A function over 1..n as the tuple it is, every limb evaluated.
Word(f) == f \o <<>>

\* The word of n limbs that is zero.
Zero(n) == Word([i \in 1..n |-> 0])

\* x widened to n limbs with zeros on the left.
ZeroExt(x, n) == Zero(n - Len(x)) \o x

IsZero(x) == \A i \in 1..Len(x) : x[i] = 0

\* a < b, for words of one width.
Lt(a, b) == \E i \in 1..Len(a) : a[i] < b[i] /\ \A j \in 1..(i - 1) : a[j] = b[j]

\* Whether limb i of a - b lends to the limbs below it.
Borrow(a, b, i) ==
    \E k \in (i + 1)..Len(a) : a[k] < b[k] /\ \A j \in (i + 1)..(k - 1) : a[j] = b[j]

\* a - b modulo 2^width, for words of one width.
Sub(a, b) ==
    Word([i \in 1..Len(a) |->
        (a[i] - b[i] - (IF Borrow(a, b, i) THEN 1 ELSE 0) + Limb) % Limb])

\* Bit k of x, bit 1 the most significant.
Bit(x, k) == (x[((k - 1) \div LimbBits) + 1] \div (2 ^ (LimbBits - 1 - ((k - 1) % LimbBits)))) % 2

\* x << 1 with bit shifted in, modulo 2^width.
Shl1(x, bit) ==
    Word([i \in 1..Len(x) |->
        ((x[i] * 2) % Limb) + (IF i = Len(x) THEN bit ELSE x[i + 1] \div (Limb \div 2))])

\* x >> 1, a zero shifted in.
Shr1(x) ==
    Word([i \in 1..Len(x) |->
        (IF i = 1 THEN 0 ELSE (x[i - 1] % 2) * (Limb \div 2)) + (x[i] \div 2)])

\* x >> 8, zeros shifted in.
Shr8(x) ==
    Word([i \in 1..Len(x) |->
        (IF i = 1 THEN 0 ELSE (x[i - 1] % 256) * 256) + (x[i] \div 256)])

\* TRUE, once x is evaluated: a recursion that tests its accumulators takes
\* each step before the next.
Evaluated(x) == x = x

RECURSIVE DivFrom(_, _, _, _, _)
DivFrom(a, b, k, rem, q) ==
    IF k > LimbBits * Len(a) THEN q
    ELSE LET s  == Shl1(rem, Bit(a, k))
             ge == ~Lt(s, b)
             r2 == IF ge THEN Sub(s, b) ELSE s
             q2 == Shl1(q, IF ge THEN 1 ELSE 0)
         IN  IF Evaluated(r2) /\ Evaluated(q2) THEN DivFrom(a, b, k + 1, r2, q2) ELSE q

\* floor(a / b) for words of one width and b # 0, by long division; the
\* running remainder carries one more limb than the operands.
Div(a, b) == DivFrom(a, <<0>> \o b, 1, Zero(Len(a) + 1), Zero(Len(a)))

RECURSIVE XorLimb(_, _, _)
\* The exclusive or of the low k bits of two limbs.
XorLimb(x, y, k) ==
    IF k = 0 THEN 0 ELSE ((x + y) % 2) + 2 * XorLimb(x \div 2, y \div 2, k - 1)

Xor(a, b) == Word([i \in 1..Len(a) |-> XorLimb(a[i], b[i], LimbBits)])

Not(a) == Word([i \in 1..Len(a) |-> Limb - 1 - a[i]])

\* The natural held by the low 8 bits of a word.
LowByte(x) == x[Len(x)] % 256

\* Go's uint32(x) conversion: the low 32 bits of x.
uint32(x) == SubSeq(x, Len(x) - N32 + 1, Len(x))

\* math.MaxUint32 = 2^32 - 1, as a uint32.
MaxUint32 == <<Limb - 1, Limb - 1>>

\* The limb written by four hexadecimal digits.
Hex4(a, b, c, d) == ((a * 16 + b) * 16 + c) * 16 + d

(***************************************************************************)
(* hash/crc32: ChecksumIEEE                                                *)
(***************************************************************************)

\* crc32.IEEE, the reversed polynomial 0xedb88320.
IEEE == <<Hex4(14, 13, 11, 8), Hex4(8, 3, 2, 0)>>

RECURSIVE TableEntry(_, _)
TableEntry(crc, k) ==
    IF k = 0 THEN crc
    ELSE TableEntry(IF crc[N32] % 2 = 1 THEN Xor(Shr1(crc), IEEE) ELSE Shr1(crc), k - 1)

\* crc32.IEEETable: entry i is i pushed through eight steps of the polynomial.
IEEETable == [i \in 0..255 |-> TableEntry(<<0, i>>, 8)]

\* One step of the table-driven update: tab[byte(crc) ^ v] ^ (crc >> 8).
UpdateByte(crc, v) == Xor(IEEETable[XorLimb(LowByte(crc), v, 8)], Shr8(crc))

RECURSIVE Update(_, _)
\* The table-driven update of the running checksum over the bytes of data.
Update(crc, data) ==
    IF data = <<>> THEN crc
    ELSE LET next == UpdateByte(crc, Head(data))
         IN  IF Evaluated(next) THEN Update(next, Tail(data)) ELSE crc

\* crc32.ChecksumIEEE(data): the CRC-32 of a sequence of bytes.
ChecksumIEEE(data) == Not(Update(Not(Zero(N32)), data))

(***************************************************************************)
(* trace.SpanID.String(): sixteen lower-case hexadecimal characters        *)
(***************************************************************************)

\* The ASCII code of the hexadecimal digit d in "0123456789abcdef".
HexChar(d) == IF d < 10 THEN 48 + d ELSE 87 + d

RECURSIVE SpanIDString(_)
\* The text of a span ID given as its eight bytes.
SpanIDString(id) ==
    IF id = <<>> THEN <<>>
    ELSE <<HexChar(Head(id) \div 16), HexChar(Head(id) % 16)>> \o SpanIDString(Tail(id))

(***************************************************************************)
(* The sampler's inputs                                                    *)
(***************************************************************************)

\* A rate of the table's value type holding the small natural n.
Rate(n) == <<0, 0, 0, n>>

\* The rate 2^32 + n, which does not fit a uint32.
Pow32Plus(n) == <<0, 1, 0, n>>

One == Rate(1)

\* The rates the tables of the model hold: 0, 1, small rates, MaxUint32 and
\* rates above it.
Rates ==
    { Rate(0), One, Rate(2), Rate(3), Rate(10), ZeroExt(MaxUint32, N64),
      Pow32Plus(0), Pow32Plus(1), Pow32Plus(2) }

\* The empty mapping.
Empty == [k \in {} |-> One]

\* The sample-rate tables a sampler is constructed with.
RateTables ==
    { Empty,
      [k \in {"checkout", "k"} |-> IF k = "k" THEN One ELSE Rate(10)],
      [k \in {"checkout", "k"} |-> IF k = "k" THEN Rate(3) ELSE Rate(2)],
      [k \in {"checkout", "k"} |-> IF k = "k" THEN Pow32Plus(1) ELSE ZeroExt(MaxUint32, N64)],
      [k \in {"checkout", "k"} |-> IF k = "k" THEN Pow32Plus(2) ELSE Rate(0)],
      [k \in {"checkout"} |-> Pow32Plus(0)] }

\* Span IDs (eight bytes), picked for their checksums: of the text of each,
\* in turn, 0, floor((2^32-1)/10), floor((2^32-1)/3), 2^31 - 2, 2^31 - 1, 2^31
\* and 2^32 - 1.
SpanIDs ==
    { <<0, 0, 0, 0, 81, 245, 37, 12>>,
      <<0, 0, 0, 3, 184, 78, 218, 189>>,
      <<0, 0, 0, 0, 14, 131, 184, 37>>,
      <<0, 0, 0, 1, 190, 138, 36, 201>>,
      <<0, 0, 0, 2, 150, 25, 242, 108>>,
      <<0, 0, 0, 0, 54, 225, 189, 164>>,
      <<0, 0, 0, 0, 25, 176, 71, 173>> }

\* The attribute values of the model: a type tag and a payload.
AttrValues == { [Type |-> "STRING", v |-> "k"], [Type |-> "INT64", v |-> "7"] }

AttrKeys == {"name", "k"}

Attrs == [Key : AttrKeys, Value : AttrValues]

Names == {"checkout", "k", "other"}

(***************************************************************************)
(* o11y/otel/sampler.go                                                    *)
(***************************************************************************)

\* attribute.Value.AsInterface(): the Go value of an attribute value, which
\* carries its dynamic type.
AsInterface(value) ==
    [dyn |-> IF value.Type = "STRING" THEN "string" ELSE "int64", val |-> value.v]

\* A Go string held in an interface.
GoString(s) == [dyn |-> "string", val |-> s]

RECURSIVE Materialize(_, _)
\* The loop of shouldSample over p.Attributes(): the first n attributes
\* written into the map in order, a later write of a key replacing an earlier.
Materialize(attrs, n) ==
    IF n = 0 THEN [k \in {} |-> GoString("")]
    ELSE LET rest == Materialize(attrs, n - 1)
         IN  [k \in DOMAIN rest \cup {attrs[n].Key} |->
                 IF k = attrs[n].Key THEN AsInterface(attrs[n].Value) ELSE rest[k]]

\* The fields mapping with the name written before the attributes, not after.
Fields_nameFirst(p) ==
    LET m == Materialize(p.attrs, Len(p.attrs))
    IN  [k \in DOMAIN m \cup {"name"} |-> IF k \in DOMAIN m THEN m[k] ELSE GoString(p.name)]

\* The fields mapping shouldSample hands to sampleKeyFunc.
Fields(p) ==
    LET m == Materialize(p.attrs, Len(p.attrs))
    IN  [k \in DOMAIN m \cup {"name"} |-> IF k = "name" THEN GoString(p.name) ELSE m[k]]

\* The key functions a sampler is constructed with: the span's name, or the
\* string attribute "k" (the empty key when it is missing or no string).
KeyFuncs == {"byName", "byAttr"}

\* s.sampleKeyFunc(fields), for the key function f.
ApplyKeyFunc(f, flds) ==
    IF f = "byName" THEN flds["name"].val
    ELSE IF "k" \in DOMAIN flds /\ flds["k"].dyn = "string" THEN flds["k"].val
    ELSE ""

\* Whether shouldKeep panics: the division by uint32(rate) = 0.
shouldKeepPanics(rate) == rate # One /\ IsZero(uint32(rate))

\* shouldKeep without the return of true at rate 1.
shouldKeep_noShortcut(determinant, rate) ==
    Lt(ChecksumIEEE(determinant), Div(MaxUint32, uint32(rate)))

\* shouldKeep with the comparison v <= threshold.
shouldKeep_inclusive(determinant, rate) ==
    IF rate = One THEN TRUE
    ELSE ~Lt(Div(MaxUint32, uint32(rate)), ChecksumIEEE(determinant))

\* shouldKeep with the comparison turned round, v > threshold.
shouldKeep_inverted(determinant, rate) ==
    IF rate = One THEN TRUE
    ELSE Lt(Div(MaxUint32, uint32(rate)), ChecksumIEEE(determinant))

\* shouldKeep(determinant, rate), where it returns.
shouldKeep(determinant, rate) ==
    IF rate = One THEN TRUE
    ELSE LET threshold == Div(MaxUint32, uint32(rate))
             v         == ChecksumIEEE(determinant)
         IN  Lt(v, threshold)

\* The determinants shouldKeep is called with: the texts of the span IDs and
\* "abc123".
Determinants == {SpanIDString(id) : id \in SpanIDs} \cup {<<97, 98, 99, 49, 50, 51>>}

\* shouldKeep over the determinants and rates of the model, evaluated once.
Kept == [d \in Determinants, r \in Rates |-> shouldKeep(d, r)]

\* The goroutines that call the sampler.
G == {"g1", "g2"}

\* The spans of the concurrent specification.
SampleSpans ==
    [ name  : Names,
      attrs : {<<>>, <<[Key |-> "k", Value |-> [Type |-> "STRING", v |-> "k"]]>>},
      id    : { <<0, 0, 0, 0, 81, 245, 37, 12>>,
                <<0, 0, 0, 0, 14, 131, 184, 37>>,
                <<0, 0, 0, 0, 25, 176, 71, 173>> } ]

NoSpan == [name |-> "", attrs |-> <<>>, id |-> <<>>]

NoRet == <<>>

NoFields == [k \in {} |-> GoString("")]

VARIABLES
    sampleKeyFunc,  \* deterministicSampler.sampleKeyFunc
    sampleRates,    \* deterministicSampler.sampleRates
    sampleCall,     \* per goroutine: its call of shouldSample and the call's locals
    keepCall,       \* per goroutine: its direct call of shouldKeep
    ctx,            \* the context.Context the application holds
    store,          \* per provider: the last call the provider acted on
    span,           \* the Span the last StartSpan returned
    last            \* the last call of the facade

samplerVars == <<sampleKeyFunc, sampleRates>>

facadeVars == <<ctx, store, span, last>>

vars == <<sampleKeyFunc, sampleRates, sampleCall, keepCall, ctx, store, span, last>>

\* A call of shouldSample not made yet: p is the span, fields, key and rate
\* the locals, ret what the call returned, <<keep, rateUsed>>.
NoSampleCall ==
    [pc |-> "idle", p |-> NoSpan, fields |-> NoFields, key |-> "", rate |-> Rate(0),
     ret |-> NoRet]

NoKeepCall == [pc |-> "idle", determinant |-> <<>>, rate |-> Rate(0), ret |-> FALSE]

\* A panic no caller recovers ends the process.
Crashed == \E g \in G : sampleCall[g].pc = "panic" \/ keepCall[g].pc = "panic"

\* shouldSample up to the table lookup: the fields, the key, the rate, and the
\* return of (true, 1) when the table has no rate for the key.
Begin(g, p) ==
    /\ ~Crashed
    /\ sampleCall[g].pc \in {"idle", "done"}
    /\ LET f  == Fields(p)
           k  == ApplyKeyFunc(sampleKeyFunc, f)
           ok == k \in DOMAIN sampleRates
       IN  sampleCall' = [sampleCall EXCEPT ![g] =
               [pc     |-> IF ok THEN "keep" ELSE "done",
                p      |-> p,
                fields |-> f,
                key    |-> k,
                rate   |-> IF ok THEN sampleRates[k] ELSE Rate(0),
                ret    |-> IF ok THEN NoRet ELSE <<TRUE, One>>]]
    /\ UNCHANGED <<samplerVars, keepCall, facadeVars>>

\* The last line of shouldSample with the span ID rendered into a buffer all
\* calls share: a call reads the ID another call in flight wrote there.
Keep_sharedBuffer(g) ==
    /\ ~Crashed
    /\ sampleCall[g].pc = "keep"
    /\ LET c      == sampleCall[g]
           others == {h \in G \ {g} : sampleCall[h].pc = "keep"}
           id     == IF others # {} THEN sampleCall[CHOOSE h \in others : TRUE].p.id
                     ELSE c.p.id
       IN  sampleCall' = [sampleCall EXCEPT ![g] =
               IF shouldKeepPanics(c.rate)
               THEN [c EXCEPT !.pc = "panic"]
               ELSE [c EXCEPT !.pc = "done",
                              !.ret = <<Kept[SpanIDString(id), c.rate], c.rate>>]]
    /\ UNCHANGED <<samplerVars, keepCall, facadeVars>>

\* The last line of shouldSample: shouldKeep on the text of the span ID, and
\* the rate beside it.
Keep(g) ==
    /\ ~Crashed
    /\ sampleCall[g].pc = "keep"
    /\ LET c == sampleCall[g]
       IN  sampleCall' = [sampleCall EXCEPT ![g] =
               IF shouldKeepPanics(c.rate)
               THEN [c EXCEPT !.pc = "panic"]
               ELSE [c EXCEPT !.pc = "done",
                              !.ret = <<Kept[SpanIDString(c.p.id), c.rate], c.rate>>]]
    /\ UNCHANGED <<samplerVars, keepCall, facadeVars>>

\* A direct call of shouldKeep.
ShouldKeep(g, d, r) ==
    /\ ~Crashed
    /\ keepCall' = [keepCall EXCEPT ![g] =
           IF shouldKeepPanics(r)
           THEN [pc |-> "panic", determinant |-> d, rate |-> r, ret |-> FALSE]
           ELSE [pc |-> "done", determinant |-> d, rate |-> r, ret |-> Kept[d, r]]]
    /\ UNCHANGED <<samplerVars, sampleCall, facadeVars>>

(***************************************************************************)
(* o11y.go: the facade                                                     *)
(***************************************************************************)

\* The longest chain of values a context of the model carries.
MaxDepth == 2

\* The providers an application attaches, standing for the implementations of
\* the Provider interface.
RealProviders == {"p1", "p2"}

\* The nil Provider.
Nil == "nil"

\* var defaultProvider = &noopProvider{}
defaultProvider == "noopProvider"

\* The values WithProvider is called with.
Attachable == RealProviders \cup {Nil}

\* A context is the chain of the values attached to context.Background(),
\* outermost first; providerKey{} is the key of WithProvider, spanKey the key
\* under which a provider keeps its active span.
Background == <<>>

\* ctx.Value(k): the innermost value attached under k, nil when there is none.
Value(c, k) ==
    LET at == {i \in 1..Len(c) : c[i].key = k}
    IN  IF at = {} THEN Nil ELSE c[CHOOSE i \in at : \A j \in at : j <= i].val

\* WithProvider(ctx, p)
WithProvider(c, p) == Append(c, [key |-> "providerKey", val |-> p])

\* FromContext as its comment has it: nil when the context holds no provider.
FromContext_nil(c) == Value(c, "providerKey")

\* FromContext(ctx): the type assertion fails on nil.
FromContext(c) ==
    LET provider == Value(c, "providerKey")
        ok       == provider # Nil
    IN  IF ~ok THEN defaultProvider ELSE provider

\* &noopSpan{}
noopSpan == [prov |-> defaultProvider, name |-> ""]

NoSpanYet == [prov |-> Nil, name |-> ""]

\* noopProvider.StartSpan: the context it was given and a noopSpan.
noopStartSpan(c, st, name) == [ctx |-> c, span |-> noopSpan, store |-> st]

\* noopProvider.AddField and AddFieldToTrace, noopSpan.AddField and End: empty
\* bodies.
noopCall(st, method) == st

\* Provider.StartSpan of an attached provider: a new span, active in the child
\* context it returns.
realStartSpan(pr, c, st, name) ==
    [ctx   |-> Append(c, [key |-> "spanKey", val |-> name]),
     span  |-> [prov |-> pr, name |-> name],
     store |-> [st EXCEPT ![pr] = "StartSpan"]]

\* Any other method of an attached provider or of its span: the provider acts.
realCall(pr, st, method) == [st EXCEPT ![pr] = method]

\* provider.StartSpan(ctx, name), by the provider's dynamic type.
DoStartSpan(pr, c, st, name) ==
    IF pr = defaultProvider THEN noopStartSpan(c, st, name) ELSE realStartSpan(pr, c, st, name)

\* Any other method, by the dynamic type of the provider or span.
DoCall(pr, st, method) ==
    IF pr = defaultProvider THEN noopCall(st, method) ELSE realCall(pr, st, method)

Called(op, c, ret) == [op |-> op, ctx |-> c, ret |-> ret]

\* The application goes on from context.Background().
NewContext ==
    /\ ctx # Background
    /\ ctx' = Background
    /\ last' = Called("Background", ctx, Nil)
    /\ UNCHANGED <<samplerVars, sampleCall, keepCall, store, span>>

\* ctx = o11y.WithProvider(ctx, p)
CallWithProvider(p) ==
    /\ Len(ctx) < MaxDepth
    /\ ctx' = WithProvider(ctx, p)
    /\ last' = Called("WithProvider", ctx, p)
    /\ UNCHANGED <<samplerVars, sampleCall, keepCall, store, span>>

\* o11y.FromContext(ctx)
CallFromContext ==
    /\ last' = Called("FromContext", ctx, FromContext(ctx))
    /\ UNCHANGED <<samplerVars, sampleCall, keepCall, ctx, store, span>>

\* ctx, span = o11y.StartSpan(ctx, name)
CallStartSpan(name) ==
    /\ FromContext(ctx) # defaultProvider => Len(ctx) < MaxDepth
    /\ LET r == DoStartSpan(FromContext(ctx), ctx, store, name)
       IN  /\ ctx' = r.ctx
           /\ span' = r.span
           /\ store' = r.store
    /\ last' = Called("StartSpan", ctx, Nil)
    /\ UNCHANGED <<samplerVars, sampleCall, keepCall>>

\* o11y.AddField(ctx, key, val)
CallAddField ==
    /\ store' = DoCall(FromContext(ctx), store, "AddField")
    /\ last' = Called("AddField", ctx, Nil)
    /\ UNCHANGED <<samplerVars, sampleCall, keepCall, ctx, span>>

\* o11y.AddFieldToTrace(ctx, key, val)
CallAddFieldToTrace ==
    /\ store' = DoCall(FromContext(ctx), store, "AddFieldToTrace")
    /\ last' = Called("AddFieldToTrace", ctx, Nil)
    /\ UNCHANGED <<samplerVars, sampleCall, keepCall, ctx, span>>

\* span.AddField(key, val), and o11y.AddResultToSpan(span, err), which is one
\* or two calls of it.
CallSpanAddField ==
    /\ span # NoSpanYet
    /\ store' = DoCall(span.prov, store, "Span.AddField")
    /\ last' = Called("Span.AddField", ctx, Nil)
    /\ UNCHANGED <<samplerVars, sampleCall, keepCall, ctx, span>>

\* span.End()
CallSpanEnd ==
    /\ span # NoSpanYet
    /\ store' = DoCall(span.prov, store, "Span.End")
    /\ last' = Called("Span.End", ctx, Nil)
    /\ UNCHANGED <<samplerVars, sampleCall, keepCall, ctx, span>>

FacadeIdle ==
    /\ ctx = Background
    /\ store = [pr \in RealProviders \cup {defaultProvider} |-> ""]
    /\ span = NoSpanYet
    /\ last = Called("", Background, Nil)

CallsIdle ==
    /\ sampleCall = [g \in G |-> NoSampleCall]
    /\ keepCall = [g \in G |-> NoKeepCall]

\* A sampler constructed with any key function and table of the model, and no
\* call made yet.
Init ==
    /\ sampleKeyFunc \in KeyFuncs
    /\ sampleRates \in RateTables
    /\ CallsIdle
    /\ FacadeIdle

Next == \E g \in G : (\E p \in SampleSpans : Begin(g, p)) \/ Keep(g)

\* Concurrent calls of shouldSample on one sampler.
Spec == Init /\ [][Next]_vars

InitKeep ==
    /\ sampleKeyFunc = "byName"
    /\ sampleRates = Empty
    /\ CallsIdle
    /\ FacadeIdle

NextKeep == \E g \in G, d \in Determinants, r \in Rates : ShouldKeep(g, d, r)

\* Direct calls of shouldKeep.
SpecKeep == InitKeep /\ [][NextKeep]_vars

\* The spans, determinants and rates of the specification of both functions.
PureSpans ==
    [ name  : {"checkout", "other"},
      attrs : {<<>>},
      id    : {<<0, 0, 0, 0, 81, 245, 37, 12>>, <<0, 0, 0, 0, 25, 176, 71, 173>>} ]

PureDeterminants ==
    {SpanIDString(<<0, 0, 0, 0, 81, 245, 37, 12>>), SpanIDString(<<0, 0, 0, 0, 14, 131, 184, 37>>)}

PureRates == {Rate(1), Rate(2), Rate(3)}

InitPure ==
    /\ sampleKeyFunc \in KeyFuncs
    /\ sampleRates = [k \in {"checkout", "k"} |-> IF k = "k" THEN Rate(3) ELSE Rate(2)]
    /\ CallsIdle
    /\ FacadeIdle

NextPure ==
    \E g \in G :
        \/ \E p \in PureSpans : Begin(g, p)
        \/ Keep(g)
        \/ \E d \in PureDeterminants, r \in PureRates : ShouldKeep(g, d, r)

\* Concurrent calls of shouldSample and of shouldKeep.
SpecPure == InitPure /\ [][NextPure]_vars

\* The most attributes a span of the model carries.
MaxAttrs == 3

\* The spans of the specification of the fields mapping: every sequence of
\* at most MaxAttrs attributes, keys repeated or not.
FieldSpans ==
    [ name  : {"checkout"},
      attrs : UNION {[1..n -> Attrs] : n \in 0..MaxAttrs},
      id    : {<<0, 0, 0, 0, 14, 131, 184, 37>>} ]

InitFields ==
    /\ sampleKeyFunc \in KeyFuncs
    /\ sampleRates = [k \in {"checkout", "k"} |-> IF k = "k" THEN Rate(3) ELSE Rate(2)]
    /\ CallsIdle
    /\ FacadeIdle

NextFields == (\E p \in FieldSpans : Begin("g1", p)) \/ Keep("g1")

\* One goroutine sampling spans of every attribute sequence.
SpecFields == InitFields /\ [][NextFields]_vars

NextFacade ==
    \/ NewContext
    \/ \E p \in Attachable : CallWithProvider(p)
    \/ CallFromContext
    \/ CallStartSpan("GET /help")
    \/ CallAddField
    \/ CallAddFieldToTrace
    \/ CallSpanAddField
    \/ CallSpanEnd

\* An application calling the facade.
SpecFacade == InitKeep /\ [][NextFacade]_vars
(***************************************************************************)
(* Properties                                                              *)
(***************************************************************************)

\* 2^32 - 1 as a 64-bit word.
MaxUint32Wide == ZeroExt(MaxUint32, N64)

\* 2^32 as a 64-bit word.
Pow32 == <<0, 1, 0, 0>>

\* The checksum of each determinant, as a 64-bit word.
Checksum == [d \in Determinants |-> ZeroExt(ChecksumIEEE(d), N64)]

\* floor((2^32 - 1) / r) at full width, for the rates r other than 0.
FloorMaxOver == [r \in Rates \ {Rate(0)} |-> Div(MaxUint32Wide, r)]

\* floor(2^32 / r) at full width, for the rates r other than 0.
FloorPow32Over == [r \in Rates \ {Rate(0)} |-> Div(Pow32, r)]

\* floor((2^32 - 1) / (r mod 2^32)), for the rates r whose low 32 bits are
\* not all 0.
FloorMaxOverLow ==
    [r \in {q \in Rates : ~IsZero(uint32(q))} |->
        Div(MaxUint32Wide, ZeroExt(uint32(r), N64))]

\* The sample key of a span under the sampler's key function.
KeyOf(p) == ApplyKeyFunc(sampleKeyFunc, Fields(p))

\* C1: a call of shouldSample on a span whose sample key has no entry in
\* sampleRates, or has the entry 1, does not panic and returns exactly
\* (true, 1), whatever the span ID.
C1_AbsentOrOneKeepsAll ==
    \A g \in G :
        LET c == sampleCall[g]
        IN  (/\ c.pc # "idle"
             /\ (KeyOf(c.p) \notin DOMAIN sampleRates \/ sampleRates[KeyOf(c.p)] = One))
            => /\ c.pc # "panic"
               /\ c.pc = "done" => c.ret = <<TRUE, One>>

\* Two calls have returned on spans whose ID has the checksum 2^32 - 1, which
\* no threshold keeps: one with a key absent from the table, one at rate 1.
C1_Witness ==
    /\ sampleCall["g1"].pc = "done" /\ sampleCall["g2"].pc = "done"
    /\ sampleCall["g1"].p.id = <<0, 0, 0, 0, 25, 176, 71, 173>>
    /\ sampleCall["g2"].p.id = <<0, 0, 0, 0, 25, 176, 71, 173>>
    /\ KeyOf(sampleCall["g1"].p) \notin DOMAIN sampleRates
    /\ KeyOf(sampleCall["g2"].p) \in DOMAIN sampleRates
    /\ sampleRates[KeyOf(sampleCall["g2"].p)] = One
    /\ sampleCall["g1"].ret = <<TRUE, One>>
    /\ sampleCall["g2"].ret = <<TRUE, One>>

\* C2: a call of shouldSample on a span whose sample key has a configured
\* rate r other than 1 (and other than 0, by which nothing is divided) does
\* not panic and returns (keep, r), keep being whether the checksum of the
\* text of the span ID is below floor((2^32 - 1) / r).
C2_ConfiguredRateDecides ==
    \A g \in G :
        LET c == sampleCall[g]
            k == KeyOf(c.p)
        IN  (/\ c.pc # "idle"
             /\ k \in DOMAIN sampleRates
             /\ sampleRates[k] \notin {One, Rate(0)})
            => /\ c.pc # "panic"
               /\ c.pc = "done" =>
                      c.ret = << Lt(Checksum[SpanIDString(c.p.id)], FloorMaxOver[sampleRates[k]]),
                                 sampleRates[k] >>

\* C3, as amended: a call of shouldKeep at rate 1 returns true; at a rate
\* whose low 32 bits are all 0 it panics; at any other rate r it returns
\* whether the checksum of the determinant is strictly below
\* floor((2^32 - 1) / (r mod 2^32)), a checksum equal to it being dropped.
C3_ThresholdMaxUint32 ==
    \A g \in G :
        LET c == keepCall[g]
        IN  c.pc # "idle" =>
                IF c.rate = One THEN c.pc = "done" /\ c.ret = TRUE
                ELSE IF IsZero(uint32(c.rate)) THEN c.pc = "panic"
                ELSE /\ c.pc = "done"
                     /\ c.ret = Lt(Checksum[c.determinant], FloorMaxOverLow[c.rate])

\* A call at rate 2 on a determinant whose checksum is 2^31 - 1, the
\* threshold floor((2^32 - 1) / 2) itself, has returned false.
C3_Witness ==
    \E g \in G :
        /\ keepCall[g].pc = "done"
        /\ keepCall[g].rate = Rate(2)
        /\ Checksum[keepCall[g].determinant] = FloorMaxOver[Rate(2)]
        /\ keepCall[g].ret = FALSE

\* C3, as stated, on the rates from 1 to 2^32 - 1: a call of shouldKeep at
\* rate r returns whether the checksum of the determinant is strictly below
\* floor(2^32 / r).
C3_ThresholdPow32 ==
    \A g \in G :
        LET c == keepCall[g]
        IN  (c.pc # "idle" /\ c.rate # Rate(0) /\ ~Lt(MaxUint32Wide, c.rate))
            => /\ c.pc = "done"
               /\ c.ret = Lt(Checksum[c.determinant], FloorPow32Over[c.rate])

\* C4: no call of shouldSample panics, whatever rates the table holds.
C4_NeverPanics == \A g \in G : sampleCall[g].pc # "panic"

\* C5: a call of shouldKeep at a rate of 2^32 - 1 or more returns false,
\* whatever the determinant.
C5_HugeRateDropsAll ==
    \A g \in G :
        LET c == keepCall[g]
        IN  (c.pc # "idle" /\ ~Lt(c.rate, MaxUint32Wide))
            => c.pc = "done" /\ c.ret = FALSE

\* C6: two calls of shouldSample that have returned on the same span hold the
\* same (keep, rate), and two calls of shouldKeep that have returned on the
\* same determinant and rate hold the same result, whatever calls ran before,
\* between or beside them; and no step changes the rate table or the key
\* function.
C6_PureDecision ==
    /\ [](\A g \in G, h \in G :
            (/\ sampleCall[g].pc = "done" /\ sampleCall[h].pc = "done"
             /\ sampleCall[g].p = sampleCall[h].p)
            => sampleCall[g].ret = sampleCall[h].ret)
    /\ [](\A g \in G, h \in G :
            (/\ keepCall[g].pc = "done" /\ keepCall[h].pc = "done"
             /\ keepCall[g].determinant = keepCall[h].determinant
             /\ keepCall[g].rate = keepCall[h].rate)
            => keepCall[g].ret = keepCall[h].ret)
    /\ [][sampleRates' = sampleRates /\ sampleKeyFunc' = sampleKeyFunc]_vars

\* Both goroutines have returned from shouldSample on the same span at the
\* configured rate 2, and from shouldKeep on the same determinant at rate 3.
C6_Witness ==
    /\ sampleCall["g1"].pc = "done" /\ sampleCall["g2"].pc = "done"
    /\ sampleCall["g1"].p = sampleCall["g2"].p
    /\ sampleCall["g1"].ret = <<TRUE, Rate(2)>>
    /\ sampleCall["g2"].ret = <<TRUE, Rate(2)>>
    /\ keepCall["g1"].pc = "done" /\ keepCall["g2"].pc = "done"
    /\ keepCall["g1"].determinant = keepCall["g2"].determinant
    /\ keepCall["g1"].rate = Rate(3) /\ keepCall["g2"].rate = Rate(3)
    /\ keepCall["g1"].ret = FALSE /\ keepCall["g2"].ret = FALSE

\* The positions of a context's chain at which WithProvider attached.
Attached(c) == {i \in 1..Len(c) : c[i].key = "providerKey"}

\* The innermost of them.
Innermost(c) == CHOOSE i \in Attached(c) : \A j \in Attached(c) : j <= i

\* No provider is attached: WithProvider was never called on the chain, or
\* its innermost call attached nil.
NoProvider(c) == Attached(c) = {} \/ c[Innermost(c)].val = Nil

C8_NilWhenNone ==
    (last.op = "FromContext" /\ Attached(last.ctx) = {}) => last.ret = Nil

\* The positions at which the key k occurs in the attributes.
Occurrences(attrs, k) == {i \in 1..Len(attrs) : attrs[i].Key = k}

\* The value of the last occurrence of the key k.
LastValue(attrs, k) ==
    attrs[CHOOSE i \in Occurrences(attrs, k) : \A j \in Occurrences(attrs, k) : j <= i].Value

\* C9: the fields mapping of a call of shouldSample has the span's name under
\* "name", has every other attribute key of the span with the value of the
\* key's last occurrence, and has no other key.
C9_FieldsMapping ==
    \A g \in G :
        LET c == sampleCall[g]
        IN  c.pc # "idle" =>
                /\ DOMAIN c.fields = {"name"} \cup {c.p.attrs[i].Key : i \in 1..Len(c.p.attrs)}
                /\ c.fields["name"] = GoString(c.p.name)
                /\ \A k \in DOMAIN c.fields \ {"name"} :
                       c.fields[k] = AsInterface(LastValue(c.p.attrs, k))

\* A call on a span with an attribute "name" between two attributes "k" of
\* different values: the mapping has the span's name and the later "k".
C9_Witness ==
    /\ sampleCall["g1"].pc = "done"
    /\ sampleCall["g1"].p.name = "checkout"
    /\ sampleCall["g1"].p.attrs =
           << [Key |-> "k", Value |-> [Type |-> "STRING", v |-> "k"]],
              [Key |-> "name", Value |-> [Type |-> "STRING", v |-> "k"]],
              [Key |-> "k", Value |-> [Type |-> "INT64", v |-> "7"]] >>
    /\ sampleCall["g1"].fields["name"] = GoString("checkout")
    /\ sampleCall["g1"].fields["k"] = [dyn |-> "int64", val |-> "7"]

\* C10: of two calls of shouldKeep that have returned on the same determinant
\* at rates r1 <= r2 between 1 and 2^32 - 1, the one at r1 returned true if
\* the one at r2 did.
C10_MonotoneInRate ==
    \A g \in G, h \in G :
        (/\ keepCall[g].pc = "done" /\ keepCall[h].pc = "done"
         /\ keepCall[g].determinant = keepCall[h].determinant
         /\ ~Lt(keepCall[g].rate, One)
         /\ ~Lt(keepCall[h].rate, keepCall[g].rate)
         /\ ~Lt(MaxUint32Wide, keepCall[h].rate)
         /\ keepCall[h].ret = TRUE)
        => keepCall[g].ret = TRUE

\* A determinant of checksum floor((2^32 - 1) / 10) is kept at rate 3 by one
\* call and at rate 2 by the other.
C10_Witness ==
    /\ keepCall["g1"].pc = "done" /\ keepCall["g2"].pc = "done"
    /\ keepCall["g1"].determinant = keepCall["g2"].determinant
    /\ Checksum[keepCall["g1"].determinant] = FloorMaxOver[Rate(10)]
    /\ keepCall["g1"].rate = Rate(2) /\ keepCall["g2"].rate = Rate(3)
    /\ keepCall["g1"].ret = TRUE /\ keepCall["g2"].ret = TRUE

====
